---- MODULE Spec2Model ----
(***************************************************************************)
(* case05_simd_sse2_avx: the six vertex-scaling kernels (Scalar, SSE2, AVX *)
(* for the AoS and the SoA layout), the capability detection, the kernel   *)
(* selection of main and the BenchmarkQPC harness.                          *)
(*                                                                         *)
(* The program is sequential.  pc is main's position, bpc the position     *)
(* inside the running BenchmarkQPC call, kpc the position inside the       *)
(* running kernel call.  One kernel loop iteration is one step.            *)
(*                                                                         *)
(* main runs the kernels on value-initialised buffers of 32M vertices,     *)
(* scale 2.34f, 1 iteration.  The kernels and the harness take these as    *)
(* parameters, so Init draws them from bounded sets.                       *)
(***************************************************************************)
EXTENDS Integers, Sequences, FiniteSets, TLC

\* ------------------------------------------------------------------ bounds
MaxCount == 9       \* nCount ranges over 0..MaxCount
MaxIter  == 5       \* nIterations ranges over 0..MaxIter
MaxSeed  == 1       \* input patterns 0..MaxSeed
FMax     == 40      \* largest finite float of the scaled-down float type
SizeBits == 6       \* width of the scaled-down size_t

\* ------------------------------------------------------------------ floats
\* A float is an integer code: the finite values -FMax..FMax, the two
\* infinities and one NaN.  Equality of codes is equality of bit patterns.
PInf == FMax + 1
NInf == 0 - (FMax + 1)
NaN  == FMax + 2
Float == (NInf .. PInf) \cup {NaN}

\* IEEE-754 single multiply as executed by MULSS / MULPS / VMULPS alike.
FMul(a, b) ==
    IF a = NaN \/ b = NaN THEN NaN
    ELSE IF (a \in {PInf, NInf} /\ b = 0) \/ (a = 0 /\ b \in {PInf, NInf}) THEN NaN
    ELSE IF a * b > FMax THEN PInf
    ELSE IF a * b < 0 - FMax THEN NInf
    ELSE a * b

\* size_t arithmetic
SizeMod == 2 ^ SizeBits
SizeAdd(a, b) == (a + b) % SizeMod

\* ------------------------------------------------------------------ addresses
VertexSize == 16        \* sizeof(AoSVertex): four floats
AllocAlign == 16        \* alignas(16): what an AoSVertex allocation guarantees
\* the two residues modulo 32 a 16-byte aligned allocation can have
AllocBases == {2 * AllocAlign, 3 * AllocAlign}
\* the address of pIn + i
ElemAddr(base, i) == base + VertexSize * i
\* the alignment the kernel's load / store instructions demand of their
\* operand: _mm_load_ps / _mm_store_ps 16, _mm256_load_ps / _mm256_store_ps
\* 32; the loadu / storeu forms and the scalar moves none beyond float's
AccessAlign(k) ==
    CASE k = "SSE2_AoS" -> 16
      [] k = "AVX_AoS"  -> 32
      [] OTHER          -> 1

\* ------------------------------------------------------------------ inputs
FVals == << 1, 2, 0 - 3, 4, 5, NaN, 0, 6, PInf, 0 - 7, 8, 9, 11, 0 - 13, NInf, 12 >>
PatternFloat(seed, j) == FVals[((seed * 5 + j) % Len(FVals)) + 1]
Scales   == {0 - 3, 0, 2}
OutFills == {0, 7}
Garbage  == {0, 1, NaN}      \* representatives of an indeterminate float read

Indices(n) == 0 .. (n - 1)

InitAoSIn(seed, n) ==
    [i \in Indices(n) |-> [x |-> PatternFloat(seed, 4 * i),
                           y |-> PatternFloat(seed, 4 * i + 1),
                           z |-> PatternFloat(seed, 4 * i + 2),
                           w |-> PatternFloat(seed, 4 * i + 3)]]
InitAoSOut(fill, n) ==
    [i \in Indices(n) |-> [x |-> fill, y |-> fill, z |-> fill, w |-> fill]]
\* the SoA buffer equivalent to an AoS buffer
ToSoA(aos, n) ==
    [x |-> [i \in Indices(n) |-> aos[i].x],
     y |-> [i \in Indices(n) |-> aos[i].y],
     z |-> [i \in Indices(n) |-> aos[i].z]]
InitSoAIn(seed, n)  == ToSoA(InitAoSIn(seed, n), n)
InitSoAOut(fill, n) == ToSoA(InitAoSOut(fill, n), n)

\* ------------------------------------------------------------------ kernels
Kernels == {"Scalar_AoS", "Scalar_SoA", "SSE2_AoS", "SSE2_SoA", "AVX_AoS", "AVX_SoA"}
AoSKernels == {"Scalar_AoS", "SSE2_AoS", "AVX_AoS"}
SoAKernels == {"Scalar_SoA", "SSE2_SoA", "AVX_SoA"}

\* elements consumed per loop iteration (the loop increment)
Lane(k) ==
    CASE k = "Scalar_AoS" -> 1
      [] k = "Scalar_SoA" -> 1
      [] k = "SSE2_AoS"   -> 1
      [] k = "SSE2_SoA"   -> 4
      [] k = "AVX_AoS"    -> 2
      [] k = "AVX_SoA"    -> 8

\* the kernels that open with assert((nCount % L) == 0)
Asserting == {"SSE2_SoA", "AVX_AoS", "AVX_SoA"}
AssertHolds(k, nCount) == k \in Asserting => (nCount % Lane(k)) = 0

\* the loop condition: i < nCount, or i + L <= nCount
LoopCond_NoLane(k, i, nCount) == i < nCount

LoopCond(k, i, nCount) ==
    IF k \in {"Scalar_AoS", "Scalar_SoA", "SSE2_AoS"}
    THEN i < nCount
    ELSE SizeAdd(i, Lane(k)) <= nCount

\* The loop bodies.  Each takes the two buffers and returns both.
Scalar_AoS_Body_WritesW(pIn, pOut, i, fScale) ==
    [in  |-> pIn,
     out |-> [pOut EXCEPT ![i] = [x |-> FMul(pIn[i].x, fScale),
                                  y |-> FMul(pIn[i].y, fScale),
                                  z |-> FMul(pIn[i].z, fScale),
                                  w |-> FMul(pIn[i].w, fScale)]]]

Scalar_AoS_Body(pIn, pOut, i, fScale) ==
    [in  |-> pIn,
     out |-> [pOut EXCEPT ![i] = [x |-> FMul(pIn[i].x, fScale),
                                  y |-> FMul(pIn[i].y, fScale),
                                  z |-> FMul(pIn[i].z, fScale),
                                  w |-> pOut[i].w]]]

SSE2_AoS_Body_Shuffled(pIn, pOut, i, fScale) ==
    [in  |-> pIn,
     out |-> [pOut EXCEPT ![i] = [x |-> FMul(pIn[i].y, fScale),
                                  y |-> FMul(pIn[i].x, fScale),
                                  z |-> FMul(pIn[i].z, fScale),
                                  w |-> FMul(pIn[i].w, fScale)]]]

\* _mm_load_ps / _mm_mul_ps / _mm_store_ps on the 4 floats of vertex i
SSE2_AoS_Body(pIn, pOut, i, fScale) ==
    [in  |-> pIn,
     out |-> [pOut EXCEPT ![i] = [x |-> FMul(pIn[i].x, fScale),
                                  y |-> FMul(pIn[i].y, fScale),
                                  z |-> FMul(pIn[i].z, fScale),
                                  w |-> FMul(pIn[i].w, fScale)]]]

AVX_AoS_Body_Broadcast(pIn, pOut, i, fScale) ==
    [in  |-> pIn,
     out |-> [j \in DOMAIN pOut |->
                IF j \in {i, i + 1}
                THEN [x |-> FMul(pIn[i].x, fScale),
                      y |-> FMul(pIn[i].y, fScale),
                      z |-> FMul(pIn[i].z, fScale),
                      w |-> FMul(pIn[i].w, fScale)]
                ELSE pOut[j]]]

\* _mm256_load_ps / _mm256_mul_ps / _mm256_store_ps on the 8 floats of
\* vertices i and i + 1
AVX_AoS_Body(pIn, pOut, i, fScale) ==
    [in  |-> pIn,
     out |-> [j \in DOMAIN pOut |->
                IF j \in {i, i + 1}
                THEN [x |-> FMul(pIn[j].x, fScale),
                      y |-> FMul(pIn[j].y, fScale),
                      z |-> FMul(pIn[j].z, fScale),
                      w |-> FMul(pIn[j].w, fScale)]
                ELSE pOut[j]]]

\* one axis array: lanes i .. i + L - 1 loaded, multiplied and stored
AxisMul(pA, pAo, i, L, fScale) ==
    [j \in DOMAIN pAo |-> IF j >= i /\ j < i + L THEN FMul(pA[j], fScale) ELSE pAo[j]]

Scalar_SoA_Body_Compound(pIn, pOut, i, fScale) ==
    [in  |-> pIn,
     out |-> [x |-> AxisMul(pOut.x, pOut.x, i, 1, fScale),
              y |-> AxisMul(pOut.y, pOut.y, i, 1, fScale),
              z |-> AxisMul(pOut.z, pOut.z, i, 1, fScale)]]

Scalar_SoA_Body(pIn, pOut, i, fScale) ==
    [in  |-> pIn,
     out |-> [x |-> AxisMul(pIn.x, pOut.x, i, 1, fScale),
              y |-> AxisMul(pIn.y, pOut.y, i, 1, fScale),
              z |-> AxisMul(pIn.z, pOut.z, i, 1, fScale)]]

SSE2_SoA_Body_AxisSwap(pIn, pOut, i, fScale) ==
    [in  |-> pIn,
     out |-> [x |-> AxisMul(pIn.x, pOut.x, i, 4, fScale),
              y |-> AxisMul(pIn.z, pOut.y, i, 4, fScale),
              z |-> AxisMul(pIn.y, pOut.z, i, 4, fScale)]]

SSE2_SoA_Body(pIn, pOut, i, fScale) ==
    [in  |-> pIn,
     out |-> [x |-> AxisMul(pIn.x, pOut.x, i, 4, fScale),
              y |-> AxisMul(pIn.y, pOut.y, i, 4, fScale),
              z |-> AxisMul(pIn.z, pOut.z, i, 4, fScale)]]

AVX_SoA_Body_ShortZ(pIn, pOut, i, fScale) ==
    [in  |-> pIn,
     out |-> [x |-> AxisMul(pIn.x, pOut.x, i, 8, fScale),
              y |-> AxisMul(pIn.y, pOut.y, i, 8, fScale),
              z |-> AxisMul(pIn.z, pOut.z, i, 7, fScale)]]

AVX_SoA_Body(pIn, pOut, i, fScale) ==
    [in  |-> pIn,
     out |-> [x |-> AxisMul(pIn.x, pOut.x, i, 8, fScale),
              y |-> AxisMul(pIn.y, pOut.y, i, 8, fScale),
              z |-> AxisMul(pIn.z, pOut.z, i, 8, fScale)]]

Body(k, pIn, pOut, i, fScale) ==
    CASE k = "Scalar_AoS" -> Scalar_AoS_Body(pIn, pOut, i, fScale)
      [] k = "Scalar_SoA" -> Scalar_SoA_Body(pIn, pOut, i, fScale)
      [] k = "SSE2_AoS"   -> SSE2_AoS_Body(pIn, pOut, i, fScale)
      [] k = "SSE2_SoA"   -> SSE2_SoA_Body(pIn, pOut, i, fScale)
      [] k = "AVX_AoS"    -> AVX_AoS_Body(pIn, pOut, i, fScale)
      [] k = "AVX_SoA"    -> AVX_SoA_Body(pIn, pOut, i, fScale)

\* A whole kernel call whose assertion (if compiled in) holds: the loop run
\* from index i to its exit.
RECURSIVE RunLoop(_, _, _, _, _, _)
RunLoop(k, pIn, pOut, i, nCount, fScale) ==
    IF LoopCond(k, i, nCount)
    THEN LET m == Body(k, pIn, pOut, i, fScale)
         IN  RunLoop(k, m.in, m.out, SizeAdd(i, Lane(k)), nCount, fScale)
    ELSE [in |-> pIn, out |-> pOut]

Transform(k, pIn, pOut, nCount, fScale) == RunLoop(k, pIn, pOut, 0, nCount, fScale)

\* ------------------------------------------------------------------ state
VARIABLES
    ndebug,         \* build configuration: TRUE when assert is compiled out
    nCount, fScale, nIterations,    \* the arguments of the benchmark calls
    seed, fill,     \* which input pattern / initial output contents were drawn
    hCPUInfo,       \* static CpuCaps hCPUInfo
    hSelectedAoS, hSelectedSoa,     \* main's two function pointers
    vAOS, vAOS_Save, vSOA, vSOA_Save,   \* main's four buffers
    vAOS_base, vAOS_Save_base,      \* the addresses vAOS.data() / vAOS_Save.data()
    pc,             \* main: "detect" "select" "benchAoS" "benchSoA" "done";
                    \* "aborted" after a failed assert, "fault" after a faulting access
    bpc,            \* BenchmarkQPC: "idle" "warmup" "qpcStart" "loop" "qpcEnd" "sink" "ret"
    Function,       \* BenchmarkQPC's callback argument
    bench_i,        \* BenchmarkQPC's loop counter i
    trace,          \* events of the running BenchmarkQPC call, in order
    fSink, sinkSrc, \* the volatile sink and the storage its value was read from
    kpc,            \* kernel: "idle" "entry" "loop"
    kern_i          \* the kernel's loop index i

vars == << ndebug, nCount, fScale, nIterations, seed, fill, hCPUInfo,
           hSelectedAoS, hSelectedSoa, vAOS, vAOS_Save, vSOA, vSOA_Save,
           vAOS_base, vAOS_Save_base,
           pc, bpc, Function, bench_i, trace, fSink, sinkSrc, kpc, kern_i >>

params == << ndebug, nCount, fScale, nIterations, seed, fill,
             vAOS_base, vAOS_Save_base >>
buffers == << vAOS, vAOS_Save, vSOA, vSOA_Save >>
selection == << hSelectedAoS, hSelectedSoa >>

\* the state before main's first statement, the buffers already sized
InitMain ==
    /\ hCPUInfo = [sse2 |-> FALSE, avx |-> FALSE]
    /\ hSelectedAoS = "nullptr"
    /\ hSelectedSoa = "nullptr"
    /\ vAOS = InitAoSIn(seed, nCount)
    /\ vAOS_Save = InitAoSOut(fill, nCount)
    /\ vSOA = InitSoAIn(seed, nCount)
    /\ vSOA_Save = InitSoAOut(fill, nCount)
    /\ pc = "detect"
    /\ bpc = "idle"
    /\ Function = "nullptr"
    /\ bench_i = 0
    /\ trace = << >>
    /\ fSink = 0
    /\ sinkSrc = "none"
    /\ kpc = "idle"
    /\ kern_i = 0

\* Runs within the kernels' contract: both AoS buffers at a 32-byte
\* boundary, counts far below 2^SizeBits.
Init ==
    /\ ndebug \in BOOLEAN
    /\ nCount \in 0 .. MaxCount
    /\ fScale \in Scales
    /\ nIterations \in 0 .. MaxIter
    /\ seed \in 0 .. MaxSeed
    /\ fill \in OutFills
    /\ vAOS_base = 2 * AllocAlign
    /\ vAOS_Save_base = 2 * AllocAlign
    /\ InitMain

\* Every run the signatures admit: any count of the size type, the AoS
\* buffers wherever an allocation aligned for AoSVertex may lie; scale and
\* iterations as main passes them.
InitEdge ==
    /\ ndebug \in BOOLEAN
    /\ nCount \in 0 .. (SizeMod - 1)
    /\ fScale = 2
    /\ nIterations = 1
    /\ seed = 0
    /\ fill = 7
    /\ vAOS_base \in AllocBases
    /\ vAOS_Save_base \in AllocBases
    /\ InitMain


\* ------------------------------------------------------------------ main
\* CPUID leaf 1: info2 / info3 are the sets of bits set in ECX / EDX
CpuidBits == {26, 28}

DetectCpuCaps_Swapped(info2, info3) ==
    [sse2 |-> 26 \in info2, avx |-> 28 \in info3]

DetectCpuCaps(info2, info3) ==
    [sse2 |-> 26 \in info3, avx |-> 28 \in info2]

Detect ==
    /\ pc = "detect"
    /\ \E info2 \in SUBSET CpuidBits, info3 \in SUBSET CpuidBits :
           hCPUInfo' = DetectCpuCaps(info2, info3)
    /\ pc' = "select"
    /\ UNCHANGED << params, selection, buffers, bpc, Function, bench_i, trace,
                    fSink, sinkSrc, kpc, kern_i >>

\* the if / else-if / else of main
SelectPair_SSE2First(caps) ==
    IF caps.sse2 THEN [aos |-> "SSE2_AoS", soa |-> "SSE2_SoA"]
    ELSE IF caps.avx THEN [aos |-> "AVX_AoS", soa |-> "AVX_SoA"]
    ELSE [aos |-> "Scalar_AoS", soa |-> "Scalar_SoA"]

SelectPair(caps) ==
    IF caps.avx THEN [aos |-> "AVX_AoS", soa |-> "AVX_SoA"]
    ELSE IF caps.sse2 THEN [aos |-> "SSE2_AoS", soa |-> "SSE2_SoA"]
    ELSE [aos |-> "Scalar_AoS", soa |-> "Scalar_SoA"]

Select ==
    /\ pc = "select"
    /\ hSelectedAoS' = SelectPair(hCPUInfo).aos
    /\ hSelectedSoa' = SelectPair(hCPUInfo).soa
    /\ pc' = "benchAoS"
    /\ UNCHANGED << params, hCPUInfo, buffers, bpc, Function, bench_i, trace,
                    fSink, sinkSrc, kpc, kern_i >>

\* ------------------------------------------------------------------ BenchmarkQPC
\* the buffers of the running benchmark call
CurIn  == IF pc = "benchAoS" THEN vAOS ELSE vSOA
CurOut == IF pc = "benchAoS" THEN vAOS_Save ELSE vSOA_Save

\* abort() ends the process: nothing runs once pc = "aborted"
Running == pc \in {"benchAoS", "benchSoA"}

\* entry: the callback is bound, QueryPerformanceFrequency is read
BenchmarkEnter ==
    /\ pc \in {"benchAoS", "benchSoA"}
    /\ bpc = "idle"
    /\ Function' = IF pc = "benchAoS" THEN hSelectedAoS ELSE hSelectedSoa
    /\ bpc' = "warmup"
    /\ bench_i' = 0
    /\ trace' = << >>
    /\ fSink' = 0
    /\ sinkSrc' = "none"
    /\ UNCHANGED << params, hCPUInfo, selection, buffers, pc, kpc, kern_i >>

\* line 42: the warmup call
Warmup ==
    /\ Running
    /\ bpc = "warmup"
    /\ kpc = "idle"
    /\ kpc' = "entry"
    /\ trace' = Append(trace, "call")
    /\ UNCHANGED << params, hCPUInfo, selection, buffers, pc, bpc, Function,
                    bench_i, fSink, sinkSrc, kern_i >>

\* line 44: QueryPerformanceCounter(&liStart); the loop counter is set to 0
QPCStart ==
    /\ Running
    /\ bpc = "qpcStart"
    /\ trace' = Append(trace, "start")
    /\ bench_i' = 0
    /\ bpc' = "loop"
    /\ UNCHANGED << params, hCPUInfo, selection, buffers, pc, Function,
                    fSink, sinkSrc, kpc, kern_i >>

\* the condition of the timed loop
LoopContinues_OneMore(i, n) == i <= n

LoopContinues(i, n) == i < n

\* line 48: one timed call
TimedCall ==
    /\ Running
    /\ bpc = "loop"
    /\ kpc = "idle"
    /\ LoopContinues(bench_i, nIterations)
    /\ kpc' = "entry"
    /\ trace' = Append(trace, "call")
    /\ UNCHANGED << params, hCPUInfo, selection, buffers, pc, bpc, Function,
                    bench_i, fSink, sinkSrc, kern_i >>

\* line 51: QueryPerformanceCounter(&liEnd)
QPCEnd ==
    /\ Running
    /\ bpc = "loop"
    /\ kpc = "idle"
    /\ ~LoopContinues(bench_i, nIterations)
    /\ trace' = Append(trace, "stop")
    /\ bpc' = "sink"
    /\ UNCHANGED << params, hCPUInfo, selection, buffers, pc, Function,
                    bench_i, fSink, sinkSrc, kpc, kern_i >>

\* reinterpret_cast<float*>(pOut)[0]: the float at the address pOut holds.
\* T = AoSVertex: pOut is vAOS_Save.data(), the float there is element 0's
\* x (past the end of an empty buffer).  T = SoAVertexs: pOut is &vSOA_Save,
\* the float there is the first 4 bytes of the std::vector<float> object x,
\* not of its elements.
SinkRead(T, pOut, n) ==
    IF T = "AoS"
    THEN IF n > 0
         THEN {[src |-> "element", val |-> pOut[0].x]}
         ELSE {[src |-> "out_of_bounds", val |-> g] : g \in Garbage}
    ELSE {[src |-> "vector_object", val |-> g] : g \in Garbage}

\* lines 58-59: fSink = 0.0f; fSink += ...
Sink ==
    /\ Running
    /\ bpc = "sink"
    /\ \E r \in SinkRead(IF pc = "benchAoS" THEN "AoS" ELSE "SoA", CurOut, nCount) :
           /\ fSink' = r.val
           /\ sinkSrc' = r.src
    /\ bpc' = "ret"
    /\ UNCHANGED << params, hCPUInfo, selection, buffers, pc, Function,
                    bench_i, trace, kpc, kern_i >>

BenchmarkReturn_ClearsCaps ==
    /\ Running
    /\ bpc = "ret"
    /\ bpc' = "idle"
    /\ pc' = IF pc = "benchAoS" THEN "benchSoA" ELSE "done"
    /\ hCPUInfo' = [sse2 |-> FALSE, avx |-> FALSE]
    /\ UNCHANGED << params, selection, buffers, Function,
                    bench_i, trace, fSink, sinkSrc, kpc, kern_i >>

\* line 61: return to main, which goes on to the next statement
BenchmarkReturn ==
    /\ Running
    /\ bpc = "ret"
    /\ bpc' = "idle"
    /\ pc' = IF pc = "benchAoS" THEN "benchSoA" ELSE "done"
    /\ UNCHANGED << params, hCPUInfo, selection, buffers, Function,
                    bench_i, trace, fSink, sinkSrc, kpc, kern_i >>

\* ------------------------------------------------------------------ kernel call
\* kernel entry: the assertion (when compiled in), then i = 0
KernelEntry ==
    /\ Running
    /\ kpc = "entry"
    /\ \/ /\ ~ndebug
          /\ ~AssertHolds(Function, nCount)
          /\ pc' = "aborted"
          /\ kpc' = "idle"
          /\ UNCHANGED kern_i
       \/ /\ ndebug \/ AssertHolds(Function, nCount)
          /\ kern_i' = 0
          /\ kpc' = "loop"
          /\ UNCHANGED pc
    /\ UNCHANGED << params, hCPUInfo, selection, buffers, bpc, Function,
                    bench_i, trace, fSink, sinkSrc >>

\* one loop iteration
KernelStep ==
    /\ Running
    /\ kpc = "loop"
    /\ LoopCond(Function, kern_i, nCount)
    /\ LET m == Body(Function, CurIn, CurOut, kern_i, fScale)
       IN  IF pc = "benchAoS"
           THEN /\ vAOS' = m.in
                /\ vAOS_Save' = m.out
                /\ UNCHANGED << vSOA, vSOA_Save >>
           ELSE /\ vSOA' = m.in
                /\ vSOA_Save' = m.out
                /\ UNCHANGED << vAOS, vAOS_Save >>
    /\ kern_i' = SizeAdd(kern_i, Lane(Function))
    /\ UNCHANGED << params, hCPUInfo, selection, pc, bpc, Function,
                    bench_i, trace, fSink, sinkSrc, kpc >>

\* loop exit and return into BenchmarkQPC
KernelReturn ==
    /\ Running
    /\ kpc = "loop"
    /\ ~LoopCond(Function, kern_i, nCount)
    /\ kpc' = "idle"
    /\ IF bpc = "warmup"
       THEN bpc' = "qpcStart" /\ UNCHANGED bench_i
       ELSE bench_i' = bench_i + 1 /\ UNCHANGED bpc
    /\ UNCHANGED << params, hCPUInfo, selection, buffers, pc, Function,
                    trace, fSink, sinkSrc, kern_i >>

\* An iteration whose accesses are not all inside the buffers, or not all
\* at the alignment the instruction demands, is undefined: it can go through
\* (KernelStep) or end the process with a fault.
Misaligned(k, i) ==
    \/ ElemAddr(vAOS_base, i) % AccessAlign(k) # 0
    \/ ElemAddr(vAOS_Save_base, i) % AccessAlign(k) # 0
OutOfBounds(k, i, n) == i + Lane(k) > n

KernelFault ==
    /\ Running
    /\ kpc = "loop"
    /\ LoopCond(Function, kern_i, nCount)
    /\ Misaligned(Function, kern_i) \/ OutOfBounds(Function, kern_i, nCount)
    /\ pc' = "fault"
    /\ kpc' = "idle"
    /\ UNCHANGED << params, hCPUInfo, selection, buffers, bpc, Function,
                    bench_i, trace, fSink, sinkSrc, kern_i >>

Next ==
    \/ Detect
    \/ Select
    \/ BenchmarkEnter
    \/ Warmup
    \/ QPCStart
    \/ TimedCall
    \/ QPCEnd
    \/ Sink
    \/ BenchmarkReturn
    \/ KernelEntry
    \/ KernelStep
    \/ KernelReturn

Spec == Init /\ [][Next]_vars

NextEdge ==
    \/ Next
    \/ KernelFault

SpecEdge == InitEdge /\ [][NextEdge]_vars

\* the program is one thread that runs whenever it can take a step
FairSpecEdge == InitEdge /\ [][NextEdge]_vars /\ WF_vars(NextEdge)

TypeOK ==
    /\ pc \in {"detect", "select", "benchAoS", "benchSoA", "done", "aborted", "fault"}
    /\ bpc \in {"idle", "warmup", "qpcStart", "loop", "sink", "ret"}
    /\ kpc \in {"idle", "entry", "loop"}
    /\ kern_i \in 0 .. (SizeMod - 1)
    /\ fSink \in Float


\* ------------------------------------------------------------------ properties
\* the buffers as they were when the first kernel call was made
AoSIn0  == InitAoSIn(seed, nCount)
AoSOut0 == InitAoSOut(fill, nCount)
SoAIn0  == InitSoAIn(seed, nCount)
SoAOut0 == InitSoAOut(fill, nCount)

\* the count precondition the contract states for each kernel
CountOK(k, n) ==
    CASE k = "SSE2_SoA" -> n % 4 = 0
      [] k = "AVX_AoS"  -> n % 2 = 0
      [] k = "AVX_SoA"  -> n % 8 = 0
      [] OTHER          -> TRUE

\* at least one call of the AoS (SoA) kernel has returned and none is running
AoSCalled ==
    \/ pc = "benchAoS" /\ kpc = "idle" /\ bpc \in {"qpcStart", "loop", "sink", "ret"}
    \/ pc \in {"benchSoA", "done"}
SoACalled ==
    \/ pc = "benchSoA" /\ kpc = "idle" /\ bpc \in {"qpcStart", "loop", "sink", "ret"}
    \/ pc = "done"

AoSScaled(i) ==
    /\ vAOS_Save[i].x = FMul(AoSIn0[i].x, fScale)
    /\ vAOS_Save[i].y = FMul(AoSIn0[i].y, fScale)
    /\ vAOS_Save[i].z = FMul(AoSIn0[i].z, fScale)
SoAScaled(i) ==
    /\ vSOA_Save.x[i] = FMul(SoAIn0.x[i], fScale)
    /\ vSOA_Save.y[i] = FMul(SoAIn0.y[i], fScale)
    /\ vSOA_Save.z[i] = FMul(SoAIn0.z[i], fScale)

\* C1: after a call of any of the six kernels whose count precondition
\* holds, every index i < count has output[i].axis = input[i].axis * scale
\* for the axes x, y and z.
C1_Postcondition ==
    /\ (AoSCalled /\ CountOK(hSelectedAoS, nCount)) =>
           \A i \in Indices(nCount) : AoSScaled(i)
    /\ (SoACalled /\ CountOK(hSelectedSoa, nCount)) =>
           \A i \in Indices(nCount) : SoAScaled(i)

C1_Witness ==
    /\ pc = "done"
    /\ hSelectedSoa = "AVX_SoA"
    /\ nCount = 8
    /\ fScale = 2
    /\ fill = 7
    /\ vSOA_Save.z[7] = FMul(SoAIn0.z[7], 2)
    /\ vSOA_Save.z[7] # fill

\* C2: the selected pair is the AVX pair whenever hCPUInfo.avx, else the
\* SSE2 pair when hCPUInfo.sse2, else the Scalar pair; both pointers are of
\* the same tier and neither is null.
C2_Selection ==
    pc \notin {"detect", "select"} =>
        /\ hCPUInfo.avx =>
               hSelectedAoS = "AVX_AoS" /\ hSelectedSoa = "AVX_SoA"
        /\ (~hCPUInfo.avx /\ hCPUInfo.sse2) =>
               hSelectedAoS = "SSE2_AoS" /\ hSelectedSoa = "SSE2_SoA"
        /\ (~hCPUInfo.avx /\ ~hCPUInfo.sse2) =>
               hSelectedAoS = "Scalar_AoS" /\ hSelectedSoa = "Scalar_SoA"
        /\ hSelectedAoS # "nullptr"
        /\ hSelectedSoa # "nullptr"
        /\ << hSelectedAoS, hSelectedSoa >> \in
               {<< "AVX_AoS", "AVX_SoA" >>, << "SSE2_AoS", "SSE2_SoA" >>,
                << "Scalar_AoS", "Scalar_SoA" >>}

C2_Witness ==
    /\ pc = "benchAoS"
    /\ hCPUInfo.avx
    /\ ~hCPUInfo.sse2
    /\ hSelectedAoS = "AVX_AoS"
    /\ hSelectedSoa = "AVX_SoA"

\* the events of one complete BenchmarkQPC call with n timed iterations
ExpectedTrace(n) ==
    << "call", "start" >> \o [j \in 1 .. n |-> "call"] \o << "stop" >>
IsPrefix(a, b) == Len(a) <= Len(b) /\ a = SubSeq(b, 1, Len(a))
Calls(t) == Cardinality({j \in 1 .. Len(t) : t[j] = "call"})

\* C3: a BenchmarkQPC call produces, in this order, one warmup invocation,
\* the start read, nIterations invocations, the stop read: nIterations + 1
\* invocations in all; a kernel only runs right after its own call event (so
\* the warmup runs before the start read and nothing runs after the stop read).
C3_BenchmarkOrder ==
    /\ IsPrefix(trace, ExpectedTrace(nIterations))
    /\ (bpc \in {"sink", "ret"}) =>
           /\ trace = ExpectedTrace(nIterations)
           /\ Calls(trace) = nIterations + 1
    /\ (kpc # "idle") => (trace # << >> /\ trace[Len(trace)] = "call")
    /\ (kpc # "idle" /\ bpc = "warmup") => trace = << "call" >>

C3_Witness ==
    /\ bpc = "ret"
    /\ nIterations = 5
    /\ Calls(trace) = 6
    /\ trace[1] = "call"
    /\ trace[2] = "start"
    /\ trace[8] = "stop"

XYZ(aos) == [i \in DOMAIN aos |-> << aos[i].x, aos[i].y, aos[i].z >>]

\* C4: the Scalar, SSE2 and AVX kernels of one layout, run on equal inputs
\* with a count that meets the preconditions of the kernels compared, give
\* equal x, y and z at every index.
C4_TierEquivalence ==
    /\ (AoSCalled /\ CountOK(hSelectedAoS, nCount)) =>
           \A k \in AoSKernels : CountOK(k, nCount) =>
               XYZ(vAOS_Save) = XYZ(Transform(k, AoSIn0, AoSOut0, nCount, fScale).out)
    /\ (SoACalled /\ CountOK(hSelectedSoa, nCount)) =>
           \A k \in SoAKernels : CountOK(k, nCount) =>
               vSOA_Save = Transform(k, SoAIn0, SoAOut0, nCount, fScale).out

C4_Witness ==
    /\ pc = "done"
    /\ hSelectedAoS = "SSE2_AoS"
    /\ nCount = 8
    /\ fScale = 0 - 3
    /\ XYZ(vAOS_Save) = XYZ(Transform("AVX_AoS", AoSIn0, AoSOut0, nCount, fScale).out)
    /\ XYZ(vAOS_Save) = XYZ(Transform("Scalar_AoS", AoSIn0, AoSOut0, nCount, fScale).out)
    /\ XYZ(vAOS_Save) # XYZ(AoSOut0)

\* C5: with the same scale and a count meeting both preconditions, the AoS
\* kernel on an AoS buffer and the SoA kernel of the same tier on the
\* equivalent SoA buffer give matching x, y and z at every vertex index.
C5_LayoutEquivalence ==
    (pc = "done" /\ CountOK(hSelectedAoS, nCount) /\ CountOK(hSelectedSoa, nCount)) =>
        \A i \in Indices(nCount) :
            /\ vAOS_Save[i].x = vSOA_Save.x[i]
            /\ vAOS_Save[i].y = vSOA_Save.y[i]
            /\ vAOS_Save[i].z = vSOA_Save.z[i]

C5_Witness ==
    /\ pc = "done"
    /\ hSelectedAoS = "SSE2_AoS"
    /\ hSelectedSoa = "SSE2_SoA"
    /\ nCount = 8
    /\ fScale = 2
    /\ fill = 7
    /\ vSOA = ToSoA(vAOS, nCount)
    /\ vAOS_Save[5].y = vSOA_Save.y[5]
    /\ vAOS_Save[5].y # fill

\* C6: AVX/SoA with count = 8k transforms all 8k elements; with
\* count = 8k + 1 it never returns normally with element 8k untransformed.
C6_RemainderBoundary ==
    (SoACalled /\ hSelectedSoa = "AVX_SoA") =>
        /\ (nCount % 8 = 0) => \A i \in Indices(nCount) : SoAScaled(i)
        /\ (nCount % 8 = 1) => SoAScaled(nCount - 1)

\* C7 as stated: no AoS kernel touches w, output[i].w after the call is
\* what it was before the call.
C7_WUntouched ==
    AoSCalled => \A i \in Indices(nCount) : vAOS_Save[i].w = AoSOut0[i].w

\* the indices an AoS kernel processes: all of them, or the full pairs
AoSProcessed(k, n) == IF k = "AVX_AoS" THEN 2 * (n \div 2) ELSE n

\* C7 amended: Scalar/AoS leaves every output[i].w as it was; SSE2/AoS and
\* AVX/AoS store input[i].w * scale into output[i].w at every index they
\* process and leave w as it was at the others.
C7_WFrame ==
    AoSCalled =>
        \A i \in Indices(nCount) :
            IF hSelectedAoS = "Scalar_AoS" \/ i >= AoSProcessed(hSelectedAoS, nCount)
            THEN vAOS_Save[i].w = AoSOut0[i].w
            ELSE vAOS_Save[i].w = FMul(AoSIn0[i].w, fScale)

C7_Witness ==
    /\ AoSCalled
    /\ hSelectedAoS = "SSE2_AoS"
    /\ nCount > 0
    /\ vAOS_Save[0].w # AoSOut0[0].w
    /\ vAOS_Save[0].w = FMul(AoSIn0[0].w, fScale)

\* C8: whatever the kernel and the count, the input buffers never change,
\* and an output element at index i is either as it was or computed from
\* the input element at the same index i.
C8_IndexForIndex ==
    /\ vAOS = AoSIn0
    /\ vSOA = SoAIn0
    /\ \A i \in Indices(nCount) :
           /\ vAOS_Save[i].x \in {AoSOut0[i].x, FMul(AoSIn0[i].x, fScale)}
           /\ vAOS_Save[i].y \in {AoSOut0[i].y, FMul(AoSIn0[i].y, fScale)}
           /\ vAOS_Save[i].z \in {AoSOut0[i].z, FMul(AoSIn0[i].z, fScale)}
           /\ vAOS_Save[i].w \in {AoSOut0[i].w, FMul(AoSIn0[i].w, fScale)}
           /\ vSOA_Save.x[i] \in {SoAOut0.x[i], FMul(SoAIn0.x[i], fScale)}
           /\ vSOA_Save.y[i] \in {SoAOut0.y[i], FMul(SoAIn0.y[i], fScale)}
           /\ vSOA_Save.z[i] \in {SoAOut0.z[i], FMul(SoAIn0.z[i], fScale)}

C8_Witness ==
    /\ pc = "done"
    /\ hSelectedAoS = "AVX_AoS"
    /\ nCount = 9
    /\ fScale = 2
    /\ vAOS = AoSIn0
    /\ vAOS_Save[1].x = FMul(AoSIn0[1].x, fScale)
    /\ vAOS_Save[1].x # FMul(AoSIn0[0].x, fScale)
    /\ vAOS_Save[1].x # AoSOut0[1].x

\* C9: after every kernel invocation of a BenchmarkQPC call, and so when it
\* returns, the output buffer is what one application of the kernel to the
\* input makes of it, output[i] = input[i] * scale: the invocations
\* overwrite and do not compound.
C9_OneApplication ==
    /\ AoSCalled =>
           /\ vAOS_Save = Transform(hSelectedAoS, AoSIn0, AoSOut0, nCount, fScale).out
           /\ \A i \in Indices(AoSProcessed(hSelectedAoS, nCount)) : AoSScaled(i)
    /\ SoACalled =>
           /\ vSOA_Save = Transform(hSelectedSoa, SoAIn0, SoAOut0, nCount, fScale).out
           /\ \A i \in Indices(Lane(hSelectedSoa) * (nCount \div Lane(hSelectedSoa))) :
                  SoAScaled(i)

C9_Witness ==
    /\ pc = "benchSoA"
    /\ bpc = "ret"
    /\ hSelectedSoa = "Scalar_SoA"
    /\ nIterations = 3
    /\ bench_i = 3
    /\ fScale = 2
    /\ nCount = 3
    /\ vSOA_Save.x[2] = FMul(SoAIn0.x[2], 2)
    /\ vSOA_Save.x[2] # FMul(FMul(SoAIn0.x[2], 2), 2)

\* C10: in every BenchmarkQPC call on buffers that hold elements, AoS and
\* SoA alike, the float read into the sink after the timer stop is an
\* element of the output buffer.
C10_SinkReadsOutput ==
    (bpc = "ret" /\ nCount > 0) => sinkSrc = "element"


\* main's statements in program order
MainRank(p) ==
    CASE p = "detect"   -> 0
      [] p = "select"   -> 1
      [] p = "benchAoS" -> 2
      [] p = "benchSoA" -> 3
      [] OTHER          -> 4

\* C12: hCPUInfo changes only in the one step that leaves "detect", which
\* comes before the selection; the two selected pointers change only in the
\* one step that leaves "select", which comes before the first benchmark
\* call; main never goes back, so neither changes again, during or between
\* the two benchmark runs or later.
C12_WrittenOnce ==
    [][ /\ (hCPUInfo' # hCPUInfo) => (pc = "detect" /\ pc' = "select")
        /\ (selection' # selection) => (pc = "select" /\ pc' = "benchAoS")
        /\ MainRank(pc') >= MainRank(pc)
        /\ (pc = "detect") => (hSelectedAoS = "nullptr" /\ hSelectedSoa = "nullptr")
        /\ (pc = "select") => (hSelectedAoS = "nullptr" /\ hSelectedSoa = "nullptr")
        /\ (bpc' # "idle") => (hSelectedAoS' # "nullptr" /\ hSelectedSoa' # "nullptr")
      ]_vars

C12_Witness ==
    /\ pc = "done"
    /\ hCPUInfo = [sse2 |-> TRUE, avx |-> FALSE]
    /\ hSelectedAoS = "SSE2_AoS"
    /\ hSelectedSoa = "SSE2_SoA"
    /\ nIterations = 2

\* C13: with the assertion compiled out and a count that is not a multiple
\* of the lane width L, SSE2/SoA (L = 4), AVX/AoS (L = 2) and AVX/SoA (L = 8)
\* transform the elements below L * floor(count / L), leave the output
\* elements from there to count - 1 as they were before the call, and
\* return normally: the process is never ended by the call.
C13_RemainderUntouched ==
    /\ ndebug => pc # "aborted"
    /\ (ndebug /\ AoSCalled /\ hSelectedAoS = "AVX_AoS" /\ nCount % 2 # 0) =>
           \A i \in Indices(nCount) :
               IF i < 2 * (nCount \div 2)
               THEN AoSScaled(i)
               ELSE vAOS_Save[i] = AoSOut0[i]
    /\ (ndebug /\ SoACalled /\ hSelectedSoa = "SSE2_SoA" /\ nCount % 4 # 0) =>
           \A i \in Indices(nCount) :
               IF i < 4 * (nCount \div 4)
               THEN SoAScaled(i)
               ELSE /\ vSOA_Save.x[i] = SoAOut0.x[i]
                    /\ vSOA_Save.y[i] = SoAOut0.y[i]
                    /\ vSOA_Save.z[i] = SoAOut0.z[i]
    /\ (ndebug /\ SoACalled /\ hSelectedSoa = "AVX_SoA" /\ nCount % 8 # 0) =>
           \A i \in Indices(nCount) :
               IF i < 8 * (nCount \div 8)
               THEN SoAScaled(i)
               ELSE /\ vSOA_Save.x[i] = SoAOut0.x[i]
                    /\ vSOA_Save.y[i] = SoAOut0.y[i]
                    /\ vSOA_Save.z[i] = SoAOut0.z[i]

C13_Witness ==
    /\ pc = "done"
    /\ ndebug
    /\ hSelectedSoa = "AVX_SoA"
    /\ nCount = 9
    /\ fScale = 2
    /\ fill = 7
    /\ vSOA_Save.x[7] = FMul(SoAIn0.x[7], 2)
    /\ vSOA_Save.x[8] = 7
    /\ FMul(SoAIn0.x[8], 2) # 7
    /\ vAOS_Save[8].x = 7


\* a kernel is about to execute its loop body at index kern_i
AtBody == Running /\ kpc = "loop" /\ LoopCond(Function, kern_i, nCount)

\* C11: a benchmark run always completes: every kernel loop terminates and
\* main gets past both BenchmarkQPC calls with all requested iterations
\* performed.  Stated for the runs in which no compiled-in assertion can
\* fail (assertions off, or a count that is a multiple of every lane width)
\* and the count is below 2^SizeBits - 8, where no loop index wraps.
C11_AlwaysCompletes ==
    ((ndebug \/ nCount % 8 = 0) /\ nCount < SizeMod - 8) =>
        <>(pc = "done" /\ bench_i = nIterations)

\* C14: every aligned load and store of the AoS SIMD kernels is at an
\* address that is a multiple of 16 (SSE2/AoS) or of 32 (AVX/AoS), at every
\* loop iteration, when both base addresses are multiples of 16.
C14_AlignedAccesses ==
    (AtBody /\ vAOS_base % 16 = 0 /\ vAOS_Save_base % 16 = 0) =>
        /\ Function = "SSE2_AoS" =>
               /\ (vAOS_base + 16 * kern_i) % 16 = 0
               /\ (vAOS_Save_base + 16 * kern_i) % 16 = 0
        /\ Function = "AVX_AoS" =>
               /\ (vAOS_base + 16 * kern_i) % 32 = 0
               /\ (vAOS_Save_base + 16 * kern_i) % 32 = 0

\* C15: for every nCount of the size type no kernel touches an element at
\* an index >= nCount (the loop condition never holds through i + L
\* wrapping around), and the loop index never steps back to a lower value.
C15_NoWrapAround ==
    [][ /\ AtBody => kern_i + Lane(Function) <= nCount
        /\ (kpc = "loop" /\ kpc' = "loop") => kern_i' >= kern_i
      ]_vars


\* the lane width L of the claim: 4, 2, 8 for the three kernels whose loop
\* condition is i + L <= nCount, 1 for the three with i < nCount
ClaimLane(k) ==
    CASE k = "SSE2_SoA" -> 4
      [] k = "AVX_AoS"  -> 2
      [] k = "AVX_SoA"  -> 8
      [] OTHER          -> 1
NoWrapRange(k, n) == ClaimLane(k) = 1 \/ n < SizeMod - ClaimLane(k)

\* C15 amended: for every nCount of the size type in Scalar/AoS, Scalar/SoA
\* and SSE2/AoS, and for every nCount < 2^w - L in SSE2/SoA, AVX/AoS and
\* AVX/SoA, no kernel touches an element at an index >= nCount and the loop
\* index never steps back to a lower value.
C15_NoWrapBelowLimit ==
    [][ /\ (AtBody /\ NoWrapRange(Function, nCount)) =>
               kern_i + ClaimLane(Function) <= nCount
        /\ (kpc = "loop" /\ kpc' = "loop" /\ NoWrapRange(Function, nCount)) =>
               kern_i' >= kern_i
      ]_vars

C15_Witness ==
    /\ pc = "done"
    /\ hSelectedSoa = "SSE2_SoA"
    /\ nCount = SizeMod - 5
    /\ kern_i = SizeMod - 8
    /\ vSOA_Save.x[SizeMod - 9] = FMul(SoAIn0.x[SizeMod - 9], fScale)
    /\ vSOA_Save.x[SizeMod - 8] = fill

====
